---- MODULE Spec2Model ----
(***************************************************************************)
(* Model of the email API of src/main.py: the three endpoints, the         *)
(* process-wide EmailService with its smtp_connection field, the           *)
(* attachment download helper and the exception-to-envelope mapping.       *)
(*                                                                         *)
(* The handlers are "async def" without any await that suspends, so one    *)
(* request runs to its response before the next one starts; the steps of   *)
(* a request are modelled one by one so that the order of the SMTP calls   *)
(* can be observed.                                                        *)
(*                                                                         *)
(* Python's None is modelled by the empty sequence <<>> and a present      *)
(* value v by <<v>>. A text built by an f-string is the sequence of its    *)
(* pieces, so "the text names the URL" is "the URL is one of the pieces".  *)
(***************************************************************************)
EXTENDS Integers, Sequences, FiniteSets, TLC

VARIABLES
    email_service,    \* TRUE iff EmailService() was constructed (else None)
    use_tls,          \* EmailService.use_tls
    strShowsDetail,   \* does str(HTTPException) show its detail in this build
    smtp_connection,  \* EmailService.smtp_connection: <<>> or <<session id>>
    sessions,         \* every smtplib.SMTP object built so far
    reqNo,            \* number of requests received so far
    pc,               \* position of the request in flight
    request,          \* the request in flight
    attIdx,           \* attachments of the request already embedded
    exc,              \* <<>> or <<exception leaving EmailService.send_email>>
    ops,              \* SMTP calls made while handling the request in flight
    downloads,        \* download_file_from_url calls of the request in flight
    refused,          \* recipients the relay refused in this request's sendmail
    response          \* <<>> or <<the HTTP response of the request in flight>>

vars == <<email_service, use_tls, strShowsDetail, smtp_connection, sessions,
          reqNo, pc, request, attIdx, exc, ops, downloads, refused, response>>

----------------------------------------------------------------------------
(* Bounds of the model *)

MaxRequests == 2
MaxAttachments == 2
MaxCopies == 1

----------------------------------------------------------------------------
(* Values *)

None == <<>>
Some(v) == <<v>>

Addrs == {"a@example.com", "b@example.com"}
NotAnEmail == "not-an-email"

\* EmailStr: the pydantic field type of to_email, reply_to, cc and bcc
EmailStr(x) == x \in Addrs

max_size_mb == 10
max_size_bytes == max_size_mb * 1024 * 1024
chunk_size == 8192

----------------------------------------------------------------------------
(* The remote side of an attachment URL: what urlparse and requests.get    *)
(* observe for it. content_length is the header as received (a text): it   *)
(* is absent, or numeric with a value, or not a number.                    *)

UrlOk       == "https://files.example.com/a.pdf"
UrlBadForm  == "files.example.com/a.pdf"
Url404      == "https://files.example.com/missing"
UrlDeclared == "https://files.example.com/declared-big"
UrlStreamed == "https://files.example.com/streamed-big"
UrlGarbled  == "https://files.example.com/garbled-length"

Urls == {UrlOk, UrlBadForm, Url404, UrlDeclared, UrlStreamed, UrlGarbled}

Remote(url) ==
    CASE url = UrlOk ->
           [wellFormed |-> TRUE, httpError |-> FALSE,
            content_length |-> Some([numeric |-> TRUE, value |-> 20000]),
            body |-> 20000]
      [] url = UrlBadForm ->
           [wellFormed |-> FALSE, httpError |-> FALSE,
            content_length |-> None, body |-> 0]
      [] url = Url404 ->
           [wellFormed |-> TRUE, httpError |-> TRUE,
            content_length |-> None, body |-> 0]
      [] url = UrlDeclared ->
           [wellFormed |-> TRUE, httpError |-> FALSE,
            content_length |-> Some([numeric |-> TRUE, value |-> max_size_bytes + 1]),
            body |-> max_size_bytes + 1]
      [] url = UrlStreamed ->
           [wellFormed |-> TRUE, httpError |-> FALSE,
            content_length |-> None, body |-> max_size_bytes + 1]
      [] url = UrlGarbled ->
           [wellFormed |-> TRUE, httpError |-> FALSE,
            content_length |-> Some([numeric |-> FALSE, value |-> 0]),
            body |-> 10]

----------------------------------------------------------------------------
(* Exceptions *)

HTTPException(status_code, detail) ==
    [type |-> "HTTPException", status_code |-> status_code, detail |-> detail]

\* any exception that is not an HTTPException: its text is its message
Raised(type, message) ==
    [type |-> type, status_code |-> 0, detail |-> message]

StatusText(n) ==
    CASE n = 400 -> "400: " [] n = 401 -> "401: " [] n = 500 -> "500: "
      [] n = 503 -> "503: " [] OTHER -> "?: "

\* str(e). For an HTTPException the text depends on the installed framework:
\* "<status_code>: <detail>" where the class defines __str__, "" where the
\* class passes no argument to Exception.
Str(e, showsDetail) ==
    IF e.type = "HTTPException"
    THEN IF showsDetail THEN <<StatusText(e.status_code)>> \o e.detail ELSE <<>>
    ELSE e.detail

----------------------------------------------------------------------------
(* download_file_from_url *)

\* the loop over response.iter_content(chunk_size) for a body of the given
\* length: chunk k brings the accumulated content to min(k * chunk_size,
\* body) bytes, and the loop stops at the first chunk that takes it over
\* max_size_bytes
iter_content(body) ==
    LET n == (body + chunk_size - 1) \div chunk_size
        len(k) == IF k * chunk_size < body THEN k * chunk_size ELSE body
        over == {k \in 1..n : len(k) > max_size_bytes}
    IN  IF over = {}
        THEN [overflow |-> FALSE, content |-> body, chunks |-> n]
        ELSE LET first == CHOOSE k \in over : \A j \in over : k <= j
             IN  [overflow |-> TRUE, content |-> len(first), chunks |-> first]

FileTooLarge ==
    HTTPException(400, <<"File too large. Maximum size allowed: 10MB">>)

\* the Content-Length check that precedes the download loop
content_length_check(r) ==
    IF r.content_length = None THEN None
    ELSE IF ~r.content_length[1].numeric
         THEN Some(Raised("ValueError", <<"invalid literal for int()">>))
         ELSE IF r.content_length[1].value > max_size_bytes
              THEN Some(FileTooLarge)
              ELSE None

\* the body of the try block: the exception it raises (if any), the number of
\* chunks it read and the bytes it accumulated
download_try(url) ==
    LET r == Remote(url)
        untouched(e) == [raised |-> Some(e), chunks |-> 0, content |-> 0]
    IN  IF ~r.wellFormed
        THEN untouched(HTTPException(400, <<"Invalid URL format: ", url>>))
        ELSE IF r.httpError
        THEN untouched(Raised("RequestException",
                              <<"404 Client Error: Not Found for url: ", url>>))
        ELSE IF content_length_check(r) # None
        THEN untouched(content_length_check(r)[1])
        ELSE LET got == iter_content(r.body)
             IN  [raised |-> IF got.overflow THEN Some(FileTooLarge) ELSE None,
                  chunks |-> got.chunks, content |-> got.content]

\* the except clauses: a RequestException becomes the code-400 download
\* failure, every other exception of the try block (the HTTPExceptions it
\* raises itself included) becomes the code-500 failure
download_except(e, showsDetail) ==
    IF e.type = "RequestException"
    THEN HTTPException(400, <<"Failed to download file from URL: ">> \o Str(e, showsDetail))
    ELSE HTTPException(500, <<"Error processing attachment URL: ">> \o Str(e, showsDetail))

\* the remote side of a URL is fixed, so the try block is evaluated once per
\* URL
tried == [url \in Urls |-> download_try(url)]

download_file_from_url(url, showsDetail) ==
    LET t == tried[url]
    IN  [url |-> url,
         raised |-> IF t.raised = None THEN None
                    ELSE Some(download_except(t.raised[1], showsDetail)),
         chunks |-> t.chunks,
         content |-> t.content]

----------------------------------------------------------------------------
(* Requests and responses *)

RECURSIVE SeqsUpTo(_, _)
SeqsUpTo(S, n) ==
    IF n = 0 THEN {<<>>}
    ELSE SeqsUpTo(S, n - 1) \cup [1..n -> S]

\* the bodies a client can post: cc, bcc and attachments are empty when the
\* field is absent; to_email may fail to be an address
SendEmailRequest ==
    {r \in [endpoint : {"POST /send-email"},
            to_email : {"a@example.com", NotAnEmail},
            cc : SeqsUpTo(Addrs, MaxCopies),
            bcc : SeqsUpTo(Addrs, MaxCopies),
            attachments : SeqsUpTo(Urls, MaxAttachments)] :
        Len(r.cc) + Len(r.bcc) <= MaxCopies}

\* what the framework checks before it calls the endpoint function
Validates(req) ==
    /\ EmailStr(req.to_email)
    /\ \A i \in 1..Len(req.cc) : EmailStr(req.cc[i])
    /\ \A i \in 1..Len(req.bcc) : EmailStr(req.bcc[i])

ApiResponse(statusCode, message, isError, responseException, result) ==
    [version |-> "1.0.0.0", statusCode |-> statusCode, message |-> message,
     isError |-> isError, responseException |-> responseException,
     result |-> result]

\* a response whose HTTP status follows the envelope, the usual convention
Returned_with_status(envelope) ==
    [http |-> envelope.statusCode, envelope |-> Some(envelope)]

\* a value returned by an endpoint function is sent with HTTP status 200
Returned(envelope) == [http |-> 200, envelope |-> Some(envelope)]

\* a body that fails validation never reaches the endpoint function: the
\* framework answers 422 with its own error body
RequestValidationError == [http |-> 422, envelope |-> None]

\* the failure envelope without its isError flag
http_exception_response_unflagged(e) ==
    ApiResponse(e.status_code, "Failed to send email", None,
                Some(e.detail), None)

\* send_email (endpoint): "except HTTPException as e"
http_exception_response(e) ==
    ApiResponse(e.status_code, "Failed to send email", Some(TRUE),
                Some(e.detail), None)

\* send_email (endpoint): "except Exception as e"
exception_response(e, showsDetail) ==
    ApiResponse(500, "Internal server error", Some(TRUE),
                Some(Str(e, showsDetail)), None)

\* send_email (endpoint): the response for the exception e
error_response(e, showsDetail) ==
    IF e.type = "HTTPException"
    THEN http_exception_response(e)
    ELSE exception_response(e, showsDetail)

\* send_email (endpoint): the response for a returned result
success_response(result) ==
    ApiResponse(200, "Email sent successfully", None, None, Some(result))

NotInitialized ==
    HTTPException(500, <<"Email service not initialized. Please check environment variables.">>)

\* EmailService.send_email: the recipients handed to sendmail
Recipients(req) == <<req.to_email>> \o req.cc \o req.bcc

\* EmailService.send_email: the returned dict
DeliveryResult(req) ==
    [emailId |-> req.to_email, timestamp |-> "now", status |-> "sent",
     recipients |-> [to |-> req.to_email, cc |-> req.cc, bcc |-> req.bcc]]

\* the except clauses without the one for SMTPServerDisconnected, as if the
\* catch-all took its place
send_email_except_no_disconnect(e, showsDetail) ==
    CASE e.type = "SMTPAuthenticationError" ->
           HTTPException(401, <<"SMTP Authentication failed: ">> \o Str(e, showsDetail))
      [] e.type = "SMTPRecipientsRefused" ->
           HTTPException(400, <<"Invalid recipient email address: ">> \o Str(e, showsDetail))
      [] OTHER ->
           HTTPException(500, <<"Failed to send email: ">> \o Str(e, showsDetail))

\* EmailService.send_email: the except clauses of the outer try
send_email_except(e, showsDetail) ==
    CASE e.type = "SMTPAuthenticationError" ->
           HTTPException(401, <<"SMTP Authentication failed: ">> \o Str(e, showsDetail))
      [] e.type = "SMTPRecipientsRefused" ->
           HTTPException(400, <<"Invalid recipient email address: ">> \o Str(e, showsDetail))
      [] e.type = "SMTPServerDisconnected" ->
           HTTPException(503, <<"SMTP Server connection lost: ">> \o Str(e, showsDetail))
      [] OTHER ->
           HTTPException(500, <<"Failed to send email: ">> \o Str(e, showsDetail))

\* EmailService.send_email: the except clause of the attachment loop
attachment_except(url, e, showsDetail) ==
    HTTPException(400, <<"Failed to process attachment from URL ", url, ": ">>
                       \o Str(e, showsDetail))

----------------------------------------------------------------------------
(* The SMTP client: the exceptions each call can raise *)

ConnectFaults  == {"SMTPServerDisconnected", "OSError"}
StartTlsFaults == {"SMTPServerDisconnected", "SMTPNotSupportedError"}
LoginFaults    == {"SMTPAuthenticationError", "SMTPServerDisconnected",
                   "SMTPNotSupportedError"}
SendmailFaults == {"SMTPServerDisconnected", "SMTPDataError"}
QuitFaults     == {"SMTPServerDisconnected"}

Fault(type) == Raised(type, <<"(reply of the relay)">>)

\* one SMTP call of the request in flight: at is "try" for the calls of the
\* try block and "finally" for the quit of the finally block; session is 0
\* when the call produced no session; fault is "none" or the exception raised
SmtpCall(op, at, session, fault) ==
    [op |-> op, at |-> at, session |-> session, fault |-> fault]

Session(owner) == [owner |-> owner, open |-> TRUE]

Closed(ss, id) == [ss EXCEPT ![id].open = FALSE]

\* smtplib's sendmail: the recipients the relay refuses are collected in a
\* dict keyed by address; SMTPRecipientsRefused is raised when the dict has
\* as many entries as the recipient list, otherwise the call goes on to DATA,
\* which the relay refuses (SMTPDataError) when it accepted no recipient, and
\* returns normally when the relay accepts the message
senderrs(recipients, rejected) ==
    {recipients[i] : i \in {j \in 1..Len(recipients) : recipients[j] \in rejected}}

sendmail_fault(recipients, rejected, fault) ==
    IF fault # "none" THEN fault
    ELSE IF Cardinality(senderrs(recipients, rejected)) = Len(recipients)
         THEN "SMTPRecipientsRefused"
         ELSE IF \A i \in 1..Len(recipients) : recipients[i] \in rejected
              THEN "SMTPDataError"
              ELSE "none"

----------------------------------------------------------------------------
(* State *)

NoRequest == [endpoint |-> "none"]

Init ==
    /\ email_service \in BOOLEAN
    /\ use_tls \in BOOLEAN
    /\ strShowsDetail \in BOOLEAN
    /\ smtp_connection = None
    /\ sessions = <<>>
    /\ reqNo = 0
    /\ pc = "idle"
    /\ request = NoRequest
    /\ attIdx = 0
    /\ exc = None
    /\ ops = <<>>
    /\ downloads = <<>>
    /\ refused = {}
    /\ response = None

config == <<email_service, use_tls, strShowsDetail>>

\* a request is taken when no other is in flight: its handling starts from
\* fresh locals
Accept(req) ==
    /\ pc = "idle"
    /\ reqNo < MaxRequests
    /\ reqNo' = reqNo + 1
    /\ request' = req
    /\ UNCHANGED <<attIdx, exc, ops, downloads, refused>>

\* the exception e leaves the try block of EmailService.send_email
Raise(e) ==
    /\ exc' = Some(send_email_except(e, strShowsDetail))
    /\ pc' = "finally"

----------------------------------------------------------------------------
(* Endpoints *)

root ==
    /\ Accept([endpoint |-> "GET /"])
    /\ response' = Some(Returned(ApiResponse(200, "Email API is running", None, None,
                          Some([service |-> "Email API", version |-> "1.0.0.0"]))))
    /\ pc' = "responded"
    /\ UNCHANGED <<config, smtp_connection, sessions>>

health_check ==
    /\ Accept([endpoint |-> "GET /health"])
    /\ response' = Some(Returned(ApiResponse(200, "Service is healthy", None, None,
                          Some([status |-> "healthy", timestamp |-> "now"]))))
    /\ pc' = "responded"
    /\ UNCHANGED <<config, smtp_connection, sessions>>

\* POST /send-email up to the call of email_service.send_email
send_email ==
    /\ pc = "idle"
    /\ \E req \in SendEmailRequest :
        /\ Accept(req)
        /\ IF ~Validates(req)
           THEN /\ response' = Some(RequestValidationError)
                /\ pc' = "responded"
           ELSE IF ~email_service
           THEN /\ response' = Some(Returned(error_response(NotInitialized, strShowsDetail)))
                /\ pc' = "responded"
           ELSE /\ response' = None
                /\ pc' = IF req.attachments # <<>> THEN "attach" ELSE "connect"
        /\ UNCHANGED <<config, smtp_connection, sessions>>

----------------------------------------------------------------------------
(* EmailService.send_email *)

\* the attachment loop as if a failed attachment were logged and skipped
attach_skipping_failures ==
    /\ pc = "attach"
    /\ LET url == request.attachments[attIdx + 1]
           d == download_file_from_url(url, strShowsDetail)
       IN  /\ downloads' = Append(downloads, d)
           /\ attIdx' = attIdx + 1
           /\ pc' = IF attIdx + 1 = Len(request.attachments)
                    THEN "connect" ELSE "attach"
    /\ UNCHANGED <<config, smtp_connection, sessions, reqNo, request, exc, ops,
                   refused, response>>

\* one turn of the attachment loop
attach ==
    /\ pc = "attach"
    /\ LET url == request.attachments[attIdx + 1]
           d == download_file_from_url(url, strShowsDetail)
       IN  /\ downloads' = Append(downloads, d)
           /\ IF d.raised = None
              THEN /\ attIdx' = attIdx + 1
                   /\ pc' = IF attIdx + 1 = Len(request.attachments)
                            THEN "connect" ELSE "attach"
                   /\ exc' = exc
              ELSE /\ attIdx' = attIdx
                   /\ Raise(attachment_except(url, d.raised[1], strShowsDetail))
    /\ UNCHANGED <<config, smtp_connection, sessions, reqNo, request, ops,
                   refused, response>>

\* the flow without the starttls call
after_connect_without_starttls(tls) == "login"

\* "if self.use_tls: self.smtp_connection.starttls()": the call that follows
\* a successful connect
after_connect(tls) == IF tls THEN "starttls" ELSE "login"

\* self.smtp_connection = smtplib.SMTP(self.smtp_server, self.smtp_port)
connect ==
    /\ pc = "connect"
    /\ \E fault \in {"none"} \cup ConnectFaults :
          IF fault = "none"
          THEN /\ sessions' = Append(sessions, Session(reqNo))
               /\ smtp_connection' = Some(Len(sessions) + 1)
               /\ ops' = Append(ops, SmtpCall("connect", "try", Len(sessions) + 1, fault))
               /\ pc' = after_connect(use_tls)
               /\ exc' = exc
          ELSE /\ ops' = Append(ops, SmtpCall("connect", "try", 0, fault))
               /\ Raise(Fault(fault))
               /\ UNCHANGED <<smtp_connection, sessions>>
    /\ UNCHANGED <<config, reqNo, request, attIdx, downloads, refused, response>>

\* a call on self.smtp_connection inside the try block that leads to next
Call(op, faults, next) ==
    \E fault \in {"none"} \cup faults :
        /\ ops' = Append(ops, SmtpCall(op, "try", smtp_connection[1], fault))
        /\ IF fault = "none"
           THEN pc' = next /\ exc' = exc
           ELSE Raise(Fault(fault))

starttls ==
    /\ pc = "starttls"
    /\ Call("starttls", StartTlsFaults, "login")
    /\ UNCHANGED <<config, smtp_connection, sessions, reqNo, request, attIdx,
                   downloads, refused, response>>

login ==
    /\ pc = "login"
    /\ Call("login", LoginFaults, "sendmail")
    /\ UNCHANGED <<config, smtp_connection, sessions, reqNo, request, attIdx,
                   downloads, refused, response>>

sendmail ==
    /\ pc = "sendmail"
    /\ \E rejected \in SUBSET Addrs, other \in {"none"} \cup SendmailFaults :
          LET fault == sendmail_fault(Recipients(request), rejected, other)
          IN  /\ refused' = senderrs(Recipients(request), rejected)
              /\ ops' = Append(ops, SmtpCall("sendmail", "try", smtp_connection[1], fault))
              /\ IF fault = "none"
                 THEN pc' = "quit" /\ exc' = exc
                 ELSE Raise(Fault(fault))
    /\ UNCHANGED <<config, smtp_connection, sessions, reqNo, request, attIdx,
                   downloads, response>>

\* the quit of the try block; the session is closed whether the relay
\* answers or the connection is found lost
quit ==
    /\ pc = "quit"
    /\ Call("quit", QuitFaults, "finally")
    /\ sessions' = Closed(sessions, smtp_connection[1])
    /\ UNCHANGED <<config, smtp_connection, reqNo, request, attIdx, downloads,
                   refused, response>>

\* the finally block: quit on whatever self.smtp_connection holds, any
\* exception of it swallowed; a closed session always raises
finally ==
    /\ pc = "finally"
    /\ IF smtp_connection = None
       THEN UNCHANGED <<ops, sessions>>
       ELSE LET id == smtp_connection[1]
            IN  /\ \E fault \in {"none"} \cup QuitFaults :
                      /\ sessions[id].open \/ fault # "none"
                      /\ ops' = Append(ops, SmtpCall("quit", "finally", id, fault))
                /\ sessions' = Closed(sessions, id)
    /\ pc' = "return"
    /\ UNCHANGED <<config, smtp_connection, reqNo, request, attIdx, exc,
                   downloads, refused, response>>

\* send_email (endpoint): the result or the exception of
\* email_service.send_email becomes the response
respond ==
    /\ pc = "return"
    /\ response' = Some(Returned(IF exc = None
                                 THEN success_response(DeliveryResult(request))
                                 ELSE error_response(exc[1], strShowsDetail)))
    /\ pc' = "responded"
    /\ UNCHANGED <<config, smtp_connection, sessions, reqNo, request, attIdx,
                   exc, ops, downloads, refused>>

\* the response is sent and the locals of the request are dropped
reply ==
    /\ pc = "responded"
    /\ pc' = "idle"
    /\ request' = NoRequest
    /\ attIdx' = 0
    /\ exc' = None
    /\ ops' = <<>>
    /\ downloads' = <<>>
    /\ refused' = {}
    /\ response' = None
    /\ UNCHANGED <<config, smtp_connection, sessions, reqNo>>

Next ==
    \/ root
    \/ health_check
    \/ send_email
    \/ attach
    \/ connect
    \/ starttls
    \/ login
    \/ sendmail
    \/ quit
    \/ finally
    \/ respond
    \/ reply

Spec == Init /\ [][Next]_vars

----------------------------------------------------------------------------
(* Vocabulary of the properties *)

\* the request in flight has its response
Responded == pc = "responded"

\* ... and is a POST /send-email
SendResponded == Responded /\ request.endpoint = "POST /send-email"

\* ... that passed validation on a configured service, so that
\* EmailService.send_email ran
Handled == SendResponded /\ Validates(request) /\ email_service

Envelope == response[1].envelope[1]

IsFailure(env) ==
    env.isError = Some(TRUE) /\ env.responseException # None /\ env.result = None

IsSuccess(env) ==
    env.result # None /\ env.isError # Some(TRUE) /\ env.responseException = None

\* the text names the URL
Names(text, url) == \E i \in 1..Len(text) : text[i] = url

Resolved == \A i \in 1..Len(downloads) : downloads[i].raised = None
FailedDownloads == {i \in 1..Len(downloads) : downloads[i].raised # None}

DeliverySteps == {"connect", "starttls", "login", "sendmail"}

\* the calls of the try block, in order
TryCalls == SelectSeq(ops, LAMBDA c : c.at = "try")

\* the table of section 4.4
TableCode(fault) ==
    CASE fault = "SMTPAuthenticationError" -> 401
      [] fault = "SMTPRecipientsRefused" -> 400
      [] fault = "SMTPServerDisconnected" -> 503
      [] OTHER -> 500

FaultReported ==
    \A i \in 1..Len(ops) :
        (ops[i].op \in DeliverySteps /\ ops[i].fault # "none")
            => /\ Envelope.isError = Some(TRUE)
               /\ Envelope.statusCode = TableCode(ops[i].fault)

SendmailReturned ==
    \E i \in 1..Len(ops) : ops[i].op = "sendmail" /\ ops[i].fault = "none"

----------------------------------------------------------------------------
(* C1 *)

\* C1, as stated: with all attachments resolved, a fault of connect,
\* starttls, login or sendmail is reported with isError and the code of the
\* table, and a relay that rejects one or more recipients (nothing else
\* going wrong) gives 400.
C1_AsStated ==
    (Handled /\ Resolved) =>
        /\ FaultReported
        /\ (/\ refused # {}
            /\ \A i \in 1..Len(ops) :
                  ops[i].at = "try" => ops[i].fault \in {"none", "SMTPRecipientsRefused"})
               => (Envelope.isError = Some(TRUE) /\ Envelope.statusCode = 400)

\* C1, amended: with all attachments resolved, an exception of connect,
\* starttls, login or sendmail is reported with isError and the code of the
\* table, where 400 stands for SMTPRecipientsRefused (the relay accepted no
\* recipient); when the relay rejects some recipients and sendmail returns
\* normally, the rejection is not reported as a 400.
C1_FaultMapping ==
    (Handled /\ Resolved) =>
        /\ FaultReported
        /\ (refused # {} /\ SendmailReturned) => Envelope.statusCode # 400

\* C1, witness: every recipient was refused, sendmail raised
\* SMTPRecipientsRefused and the response carries 400.
C1_Witness ==
    /\ Handled /\ Resolved
    /\ \E i \in 1..Len(ops) :
          ops[i].op = "sendmail" /\ ops[i].fault = "SMTPRecipientsRefused"
    /\ refused # {}
    /\ Envelope.statusCode = 400 /\ Envelope.isError = Some(TRUE)

----------------------------------------------------------------------------
(* C2 *)

\* C2, as stated: when the resolution of an attachment URL fails, the
\* envelope has statusCode 400, isError true, result null and a
\* responseException that names the failing URL.
C2_AsStated ==
    (Handled /\ FailedDownloads # {}) =>
        /\ Envelope.statusCode = 400
        /\ Envelope.isError = Some(TRUE)
        /\ Envelope.result = None
        /\ Envelope.responseException # None
        /\ \A i \in FailedDownloads :
              Names(Envelope.responseException[1], downloads[i].url)

----------------------------------------------------------------------------
(* C3 *)

\* C3: in every state of a request, an SMTP session is opened only after
\* every attachment URL of the request has been resolved, and once a
\* resolution has failed no connect, starttls, login or sendmail has been or
\* is made.
C3_NoPartialDelivery ==
    /\ (\E i \in 1..Len(ops) : ops[i].op \in DeliverySteps)
          => (Resolved /\ Len(downloads) = Len(request.attachments))
    /\ FailedDownloads # {}
          => (\A i \in 1..Len(ops) : ops[i].op \notin DeliverySteps)

\* C3, witness: the second attachment of a request failed after the first
\* was embedded, the response is out and no delivery step was made.
C3_Witness ==
    /\ Handled
    /\ Len(downloads) = 2
    /\ downloads[1].raised = None
    /\ downloads[2].raised # None
    /\ \A i \in 1..Len(ops) : ops[i].op \notin DeliverySteps
    /\ Envelope.isError = Some(TRUE)

----------------------------------------------------------------------------
(* C4 *)

\* C4, as stated: for every session opened in a request, a quit on that
\* session precedes the response whatever the other calls did, and a failure
\* of the close does not propagate: when no call other than quit failed, the
\* response is the success envelope.
C4_AsStated ==
    Handled =>
        /\ \A i \in 1..Len(ops) :
              (ops[i].op = "connect" /\ ops[i].fault = "none")
                 => \E j \in (i + 1)..Len(ops) :
                       ops[j].op = "quit" /\ ops[j].session = ops[i].session
        /\ (/\ SendmailReturned
            /\ \A k \in 1..Len(ops) : ops[k].op # "quit" => ops[k].fault = "none")
              => (IsSuccess(Envelope) /\ Envelope.statusCode = 200)

----------------------------------------------------------------------------
(* C5 *)

\* C5, as stated: when sendmail completed successfully the response is the
\* success envelope (statusCode 200, result with status "sent", isError
\* absent), whether the close succeeds or raises.
C5_AsStated ==
    (Handled /\ SendmailReturned) =>
        /\ Envelope.statusCode = 200
        /\ Envelope.result # None
        /\ Envelope.result[1].status = "sent"
        /\ Envelope.isError = None

----------------------------------------------------------------------------
(* C6 *)

\* C6, as stated: every POST /send-email is answered with HTTP 200 and an
\* ApiResponse envelope, a request that fails validation included.
C6_AsStated ==
    SendResponded => (response[1].http = 200 /\ response[1].envelope # None)

\* C6, amended: every POST /send-email that passes request validation is
\* answered with HTTP 200 and an ApiResponse envelope, whatever the outcome
\* (unconfigured service, attachment failure, SMTP failure, success); a
\* request that fails validation is answered by the framework with HTTP 422
\* and no envelope, before any download or SMTP call.
C6_TransportStatus ==
    SendResponded =>
        IF Validates(request)
        THEN /\ response[1].http = 200
             /\ response[1].envelope # None
             /\ (~email_service => Envelope.statusCode = 500)
             /\ (IsSuccess(Envelope) \/ IsFailure(Envelope))
        ELSE /\ response[1].http = 422
             /\ response[1].envelope = None
             /\ ops = <<>>
             /\ downloads = <<>>

\* C6, witness: a request whose login was refused is answered with HTTP 200
\* and an envelope carrying 401.
C6_Witness ==
    /\ Handled
    /\ \E i \in 1..Len(ops) : ops[i].fault = "SMTPAuthenticationError"
    /\ response[1].http = 200
    /\ Envelope.statusCode = 401

----------------------------------------------------------------------------
(* C7 *)

\* C7, as stated: the handling of a request makes no call (quit included) on
\* an SMTP session that an earlier request opened.
C7_AsStated ==
    \A i \in 1..Len(ops) :
        ops[i].session # 0 => sessions[ops[i].session].owner = reqNo

----------------------------------------------------------------------------
(* C8 *)

\* C8: every ApiResponse returned by GET /, GET /health or POST /send-email
\* is a success (result populated, isError not true, responseException
\* absent) or a failure (isError true, responseException set, result null)
\* and not both; with statusCode 200 the result is populated, with any other
\* statusCode isError is true.
C8_EnvelopeShape ==
    (response # None /\ response[1].envelope # None) =>
        /\ IsSuccess(Envelope) # IsFailure(Envelope)
        /\ Envelope.statusCode = 200 => Envelope.result # None
        /\ Envelope.statusCode # 200 => Envelope.isError = Some(TRUE)

\* C8, witness: a failure envelope of POST /send-email after the relay
\* dropped the connection.
C8_Witness ==
    /\ Handled
    /\ \E i \in 1..Len(ops) :
          ops[i].op \in DeliverySteps /\ ops[i].fault = "SMTPServerDisconnected"
    /\ Envelope.statusCode = 503
    /\ IsFailure(Envelope)

----------------------------------------------------------------------------
(* C9 *)

Ok(call, op) == call.op = op /\ call.fault = "none"

\* C9: in every state of a request the calls of the try block follow
\* connect, starttls (exactly when use_tls), login, sendmail, quit, each made
\* only after its predecessor succeeded; a failed call is followed by
\* nothing but the quit of the finally block.
C9_SessionOrder ==
    LET t == TryCalls
    IN  /\ \A i \in 1..Len(t) :
              /\ t[i].op = "connect" => i = 1
              /\ t[i].op = "starttls"
                    => (use_tls /\ i > 1 /\ Ok(t[i - 1], "connect"))
              /\ t[i].op = "login"
                    => (i > 1 /\ Ok(t[i - 1], IF use_tls THEN "starttls" ELSE "connect"))
              /\ t[i].op = "sendmail" => (i > 1 /\ Ok(t[i - 1], "login"))
              /\ t[i].op = "quit" => (i > 1 /\ Ok(t[i - 1], "sendmail"))
              /\ t[i].fault # "none" => i = Len(t)
        /\ \A i \in 1..Len(ops) :
              /\ ops[i].fault # "none"
                    => \A j \in (i + 1)..Len(ops) :
                          ops[j].op = "quit" /\ ops[j].at = "finally"
              /\ ops[i].at = "finally" => (ops[i].op = "quit" /\ i = Len(ops))
        /\ (use_tls /\ Len(t) > 0 /\ Ok(t[1], "connect") /\ pc # "starttls")
              => (Len(t) > 1 /\ t[2].op = "starttls")

\* C9, witness: with TLS configured a request went through connect,
\* starttls, login, sendmail and quit, and then the quit of the finally
\* block.
C9_Witness ==
    /\ Handled /\ use_tls
    /\ Len(ops) = 6
    /\ Ok(ops[1], "connect") /\ Ok(ops[2], "starttls") /\ Ok(ops[3], "login")
    /\ Ok(ops[4], "sendmail") /\ Ok(ops[5], "quit")
    /\ ops[6].op = "quit" /\ ops[6].at = "finally"

----------------------------------------------------------------------------
(* C10 *)

DeclaredTooLarge(url) ==
    LET r == Remote(url)
    IN  /\ r.wellFormed /\ ~r.httpError
        /\ r.content_length # None
        /\ r.content_length[1].numeric
        /\ r.content_length[1].value > max_size_bytes

\* C10, as stated: a fetch whose Content-Length exceeds the limit makes
\* download_file_from_url fail with the code-400 "File too large" failure
\* before any chunk is read and with no byte accumulated.
C10_AsStated ==
    \A i \in 1..Len(downloads) :
        DeclaredTooLarge(downloads[i].url) =>
            /\ downloads[i].raised # None
            /\ downloads[i].raised[1] = FileTooLarge
            /\ downloads[i].chunks = 0
            /\ downloads[i].content = 0

====
